---- MODULE Spec2Model ----
(***************************************************************************)
(* Model of src/data/processing/h5_to_pdb.py: the conversion of per-atom   *)
(* arrays into PDB ATOM/TER lines (create_pdb_lines_MD and                 *)
(* create_pdb_lines_QM) and the helpers they call.                         *)
(*                                                                         *)
(* A line is a record of the fields that the format string of lines 161    *)
(* and 181 receives; 'TER' is the record TER.  Coordinates are copied from *)
(* the input to the line unchanged and take no part in naming or           *)
(* segmentation; they are left out of the line record.                     *)
(***************************************************************************)
EXTENDS Integers, Sequences, FiniteSets, TLC

VARIABLES pc, fn, args, i, residue_number, residue_atom_index, lines, ret, hist,
          structs, future, written, job, frame, caller

\* the worker pool of save_all_frames_for_all_structs_MD_parallel: the
\* structures of the file, their futures, the frames written for each, the
\* structure and frame each worker is at, and the position of the caller
poolvars == <<structs, future, written, job, frame, caller>>

vars == <<pc, fn, args, i, residue_number, residue_atom_index, lines, ret, hist, poolvars>>

(***************************************************************************)
(* Bounds                                                                  *)
(***************************************************************************)
\* longest freely chosen atom stream
MaxLen == 2
\* number of worker processes of the pool
NumWorkers == 2
\* most structures in the file the pool converts
MaxStructs == 3

(***************************************************************************)
(* Lookup tables                                                           *)
(***************************************************************************)
\* line 31
atomic_numbers_Map ==
    [n \in {1, 5, 6, 7, 8, 9, 11, 12, 13, 14, 15, 16, 17, 19, 20, 34, 35, 53} |->
        CASE n = 1 -> "H" [] n = 5 -> "B" [] n = 6 -> "C" [] n = 7 -> "N"
          [] n = 8 -> "O" [] n = 9 -> "F" [] n = 11 -> "Na" [] n = 12 -> "Mg"
          [] n = 13 -> "Al" [] n = 14 -> "Si" [] n = 15 -> "P" [] n = 16 -> "S"
          [] n = 17 -> "Cl" [] n = 19 -> "K" [] n = 20 -> "Ca" [] n = 34 -> "Se"
          [] n = 35 -> "Br" [] n = 53 -> "I"]

\* atoms_type_map.pickle: integer code -> type label (line 40)
typeMap == <<"OH", "NH", "CA">>

\* atoms_residue_map.pickle: integer code -> residue name (line 39)
residue_Map == <<"GLY", "GLN", "ASN", "MOL">>

\* an atoms_name_map_for_pdb.pickle (line 41) with no entry
EmptyNameMap == [k \in {} |-> ""]

\* an atoms_name_map_for_pdb.pickle (line 41) that knows the first atom of
\* every residue name, "MOL" included, and nothing further
SampleNameMap ==
    [k \in {<<r, 0, t>> : r \in {"GLY", "GLN", "ASN", "MOL"}, t \in {"OH", "NH", "CA"}} |->
        CASE k[3] = "OH" -> "O" [] k[3] = "NH" -> "N" [] OTHER -> "CA"]

NameMaps == {EmptyNameMap, SampleNameMap}

(***************************************************************************)
(* Python helpers                                                          *)
(***************************************************************************)
\* a[j] of a Python sequence (0-based)
At(a, j) == a[j + 1]

\* str(n) of a non-negative integer
str(n) == ToString(n)

\* s[0] of a type label
FirstChar(s) ==
    CASE s = "OH" -> "O" [] s = "NH" -> "N" [] s = "CA" -> "C"

\* the outcome of an expression: a value, or a KeyError that left it
Value(v) == [raised |-> FALSE, value |-> v]
KeyError == [raised |-> TRUE]

(***************************************************************************)
(* get_atom_name, lines 74-97                                              *)
(***************************************************************************)
\* atomic_numbers_Map[atoms_number[i]]+str(residue_atom_index), lines 87, 90, 96
ElementName(j, atoms_number, idx) ==
    IF At(atoms_number, j) \in DOMAIN atomic_numbers_Map
    THEN Value(atomic_numbers_Map[At(atoms_number, j)] \o str(idx))
    ELSE KeyError

\* get_atom_name consulting the Name table for ligand atoms too
get_atom_name_LookupFirst(j, atoms_number, idx, residue_name, type_string, nameMap) ==
    IF <<residue_name, idx - 1, type_string>> \in DOMAIN nameMap
    THEN Value(nameMap[<<residue_name, idx - 1, type_string>>])
    ELSE ElementName(j, atoms_number, idx)

\* get_atom_name falling back to the index of the key, position - 1
get_atom_name_FallbackPrev(j, atoms_number, idx, residue_name, type_string, nameMap) ==
    IF residue_name = "MOL"
    THEN ElementName(j, atoms_number, idx)
    ELSE IF <<residue_name, idx - 1, type_string>> \in DOMAIN nameMap
         THEN Value(nameMap[<<residue_name, idx - 1, type_string>>])
         ELSE ElementName(j, atoms_number, idx - 1)

get_atom_name(j, atoms_number, idx, residue_name, type_string, nameMap) ==
    IF residue_name = "MOL"
    THEN LET first == ElementName(j, atoms_number, idx)
         IN  IF first.raised THEN ElementName(j, atoms_number, idx) ELSE first
    ELSE IF <<residue_name, idx - 1, type_string>> \in DOMAIN nameMap
         THEN Value(nameMap[<<residue_name, idx - 1, type_string>>])
         ELSE ElementName(j, atoms_number, idx)

(***************************************************************************)
(* update_residue_indices, lines 99-119: returns                           *)
(* <<residue_number, residue_atom_index>>                                  *)
(***************************************************************************)
\* update_residue_indices without the ASN exception of line 116
update_residue_indices_NoASN(rn, j, type_string, atoms_type, atoms_residue, residue_name, idx) ==
    IF j < Len(atoms_type) - 1
    THEN IF \/ /\ FirstChar(type_string) = "O"
               /\ FirstChar(typeMap[At(atoms_type, j + 1)]) = "N"
            \/ residue_Map[At(atoms_residue, j + 1)] = "MOL"
         THEN IF ~ (residue_name = "GLN" /\ idx \in {12, 14})
              THEN <<rn + 1, 0>>
              ELSE <<rn, idx>>
         ELSE <<rn, idx>>
    ELSE <<rn, idx>>

\* update_residue_indices without the ligand trigger of line 114
update_residue_indices_NoLigandTrigger(rn, j, type_string, atoms_type, atoms_residue, residue_name, idx) ==
    IF j < Len(atoms_type) - 1
    THEN IF /\ FirstChar(type_string) = "O"
            /\ FirstChar(typeMap[At(atoms_type, j + 1)]) = "N"
         THEN IF ~ \/ (residue_name = "GLN" /\ idx \in {12, 14})
                   \/ (residue_name = "ASN" /\ idx \in {9, 11})
              THEN <<rn + 1, 0>>
              ELSE <<rn, idx>>
         ELSE <<rn, idx>>
    ELSE <<rn, idx>>

\* update_residue_indices looking past the last atom, at the first one
update_residue_indices_WrapAround(rn, j, type_string, atoms_type, atoms_residue, residue_name, idx) ==
    IF j < Len(atoms_type)
    THEN IF \/ /\ FirstChar(type_string) = "O"
               /\ FirstChar(typeMap[At(atoms_type, (j + 1) % Len(atoms_type))]) = "N"
            \/ residue_Map[At(atoms_residue, (j + 1) % Len(atoms_type))] = "MOL"
         THEN IF ~ \/ (residue_name = "GLN" /\ idx \in {12, 14})
                   \/ (residue_name = "ASN" /\ idx \in {9, 11})
              THEN <<rn + 1, 0>>
              ELSE <<rn, idx>>
         ELSE <<rn, idx>>
    ELSE <<rn, idx>>

\* update_residue_indices with the ligand trigger only where a ligand begins
update_residue_indices_LigandEntry(rn, j, type_string, atoms_type, atoms_residue, residue_name, idx) ==
    IF j < Len(atoms_type) - 1
    THEN IF \/ /\ FirstChar(type_string) = "O"
               /\ FirstChar(typeMap[At(atoms_type, j + 1)]) = "N"
            \/ /\ residue_Map[At(atoms_residue, j + 1)] = "MOL"
               /\ residue_name # "MOL"
         THEN IF ~ \/ (residue_name = "GLN" /\ idx \in {12, 14})
                   \/ (residue_name = "ASN" /\ idx \in {9, 11})
              THEN <<rn + 1, 0>>
              ELSE <<rn, idx>>
         ELSE <<rn, idx>>
    ELSE <<rn, idx>>

update_residue_indices(rn, j, type_string, atoms_type, atoms_residue, residue_name, idx) ==
    IF j < Len(atoms_type) - 1
    THEN IF \/ /\ FirstChar(type_string) = "O"
               /\ FirstChar(typeMap[At(atoms_type, j + 1)]) = "N"
            \/ residue_Map[At(atoms_residue, j + 1)] = "MOL"
         THEN IF ~ \/ (residue_name = "GLN" /\ idx \in {12, 14})
                   \/ (residue_name = "ASN" /\ idx \in {9, 11})
              THEN <<rn + 1, 0>>
              ELSE <<rn, idx>>
         ELSE <<rn, idx>>
    ELSE <<rn, idx>>

(***************************************************************************)
(* insert_TERS, lines 121-135: returns                                     *)
(* <<residue_number, residue_atom_index, lines>>                           *)
(***************************************************************************)
TER == [kind |-> "TER"]

\* insert_TERS without line 133
insert_TERS_NoIncrement(j, molecules_begin_atom_index, rn, idx, ls) ==
    IF j + 1 \in molecules_begin_atom_index
    THEN <<rn, 0, Append(ls, TER)>>
    ELSE <<rn, idx, ls>>

\* insert_TERS without line 134
insert_TERS_NoReset(j, molecules_begin_atom_index, rn, idx, ls) ==
    IF j + 1 \in molecules_begin_atom_index
    THEN <<rn + 1, idx, Append(ls, TER)>>
    ELSE <<rn, idx, ls>>

\* insert_TERS testing i instead of i+1 at line 131
insert_TERS_AtCurrent(j, molecules_begin_atom_index, rn, idx, ls) ==
    IF j \in molecules_begin_atom_index
    THEN <<rn + 1, 0, Append(ls, TER)>>
    ELSE <<rn, idx, ls>>

insert_TERS(j, molecules_begin_atom_index, rn, idx, ls) ==
    IF j + 1 \in molecules_begin_atom_index
    THEN <<rn + 1, 0, Append(ls, TER)>>
    ELSE <<rn, idx, ls>>

\* atomic_numbers_Map[atoms_number[i]] among the arguments of the format call
\* of line 161
\* the element looked up with a default instead of a KeyError
FormatElement_Lenient(j, atoms_number) ==
    IF At(atoms_number, j) \in DOMAIN atomic_numbers_Map
    THEN Value(atomic_numbers_Map[At(atoms_number, j)])
    ELSE Value("X")

FormatElement(j, atoms_number) ==
    IF At(atoms_number, j) \in DOMAIN atomic_numbers_Map
    THEN Value(atomic_numbers_Map[At(atoms_number, j)])
    ELSE KeyError

\* atomic_numbers_Map[int(atoms_number[i])]+str(i), line 181
\* the QM atom name counted from 1
QMAtomName_OneBased(j, atoms_number) ==
    IF At(atoms_number, j) \in DOMAIN atomic_numbers_Map
    THEN Value(atomic_numbers_Map[At(atoms_number, j)] \o str(j + 1))
    ELSE KeyError

QMAtomName(j, atoms_number) ==
    IF At(atoms_number, j) \in DOMAIN atomic_numbers_Map
    THEN Value(atomic_numbers_Map[At(atoms_number, j)] \o str(j))
    ELSE KeyError

\* the arguments of the format call of lines 161 and 181 (serial, atom name,
\* residue name, residue number, element symbol)
AtomLine(serial, atom_name, residue_name, rn, element) ==
    [kind |-> "ATOM", serial |-> serial, name |-> atom_name,
     resName |-> residue_name, resSeq |-> rn, element |-> element]

(***************************************************************************)
(* The text of an ATOM line, lines 161 and 181:                            *)
(* 'ATOM{0:7d}  {1:<4}{2:<4}{3:>5}    {4:8.3f}{5:8.3f}{6:8.3f}             *)
(*   1.00  0.00           {7:<5}'                                          *)
(***************************************************************************)
\* the widths of the replacement fields
SerialWidth == 7
NameWidth == 4
ResNameWidth == 4
ResSeqWidth == 5
CoordWidth == 8
ElementWidth == 5

\* the number of characters a replacement field of width w writes for the
\* text s: str.format pads a shorter text to w and writes a longer one whole
Field(s, w) == IF Len(s) >= w THEN Len(s) ELSE w

\* the 0-based column at which the atom name and the residue name of an ATOM
\* line start ('ATOM', the serial and two spaces come first)
NameColumn(l) == 4 + Field(str(l.serial), SerialWidth) + 2
ResNameColumn(l) == NameColumn(l) + Field(l.name, NameWidth)

\* the length of an ATOM line whose coordinates fit their fields: four
\* spaces follow the residue number, '  1.00  0.00' and eleven spaces follow
\* the coordinates
LineLength(l) ==
    ResNameColumn(l) + Field(l.resName, ResNameWidth) + Field(str(l.resSeq), ResSeqWidth)
        + 4 + 3 * CoordWidth + 12 + 11 + Field(l.element, ElementWidth)

(***************************************************************************)
(* Inputs.  An atom is a pair of codes of the type and residue tables; its *)
(* atomic number is that of the element its type label names, unless the   *)
(* stream is corrupt at that atom.                                         *)
(***************************************************************************)
Atoms == [type : DOMAIN typeMap, residue : DOMAIN residue_Map]

\* the atomic number of the element a type label names
NumberOfType(t) ==
    CASE typeMap[t] = "OH" -> 8 [] typeMap[t] = "NH" -> 7 [] typeMap[t] = "CA" -> 6

\* atomic numbers that the Element table of line 31 does not hold
NonElements == {2}

Streams(n) == [1..n -> Atoms]

MDArgs(stream, numbers, begin, nameMap) ==
    [atoms_type |-> [k \in 1..Len(stream) |-> stream[k].type],
     atoms_number |-> numbers,
     atoms_residue |-> [k \in 1..Len(stream) |-> stream[k].residue],
     molecules_begin_atom_index |-> begin,
     nameMap |-> nameMap]

Numbers(stream) == [k \in 1..Len(stream) |-> NumberOfType(stream[k].type)]

\* the positions that line 116 names
GLNPositions == {12, 14}
ASNPositions == {9, 11}

\* the lengths k of a leading residue after which the next atom stands at one
\* of the positions of line 116
PadLens == {q - 1 : q \in GLNPositions \cup ASNPositions}

\* a leading residue r of k carbon atoms
Pad(k, r) == [j \in 1..k |-> [type |-> 3, residue |-> r]]

\* the three-atom stream OH/GLY, NH/GLY, CA/MOL
ExampleStream ==
    <<[type |-> 1, residue |-> 1], [type |-> 2, residue |-> 1], [type |-> 3, residue |-> 4]>>

\* the atomic numbers of a QM snapshot
QMNumbers == {6, 8, 20} \cup NonElements

(***************************************************************************)
(* State.  Each slot p is one execution context (the main program, or one  *)
(* worker process); pc[p] is its position, the other variables are the     *)
(* arguments and locals of the create_pdb_lines_* call it is in.           *)
(***************************************************************************)
Slots == DOMAIN pc

NoReturn == [returned |-> FALSE, lines |-> <<>>]
Returned(ls) == [returned |-> TRUE, lines |-> ls]

NoArgs == [atoms_number |-> <<>>]

SlotInit(S) ==
    /\ pc = [p \in S |-> "idle"]
    /\ fn = [p \in S |-> "none"]
    /\ args = [p \in S |-> NoArgs]
    /\ i = [p \in S |-> 0]
    /\ residue_number = [p \in S |-> 0]
    /\ residue_atom_index = [p \in S |-> 0]
    /\ lines = [p \in S |-> <<>>]
    /\ ret = [p \in S |-> NoReturn]
    /\ hist = [p \in S |-> <<>>]

\* no pool: the single-structure path of lines 244-260
NoPool ==
    /\ structs = <<>>
    /\ future = <<>>
    /\ written = <<>>
    /\ job = [p \in Slots |-> 0]
    /\ frame = [p \in Slots |-> 0]
    /\ caller = [at |-> "main", n |-> 0, exc |-> FALSE]

Init == SlotInit({1}) /\ NoPool

\* the tracker kept in one place for all execution contexts
Enter_Shared(p, f, a) ==
    /\ pc' = [pc EXCEPT ![p] = "scan"]
    /\ fn' = [fn EXCEPT ![p] = f]
    /\ args' = [args EXCEPT ![p] = a]
    /\ i' = [i EXCEPT ![p] = 0]
    /\ lines' = [lines EXCEPT ![p] = <<>>]
    /\ residue_number' = [q \in Slots |-> 1]
    /\ residue_atom_index' = [q \in Slots |-> 0]
    /\ ret' = [ret EXCEPT ![p] = NoReturn]
    /\ hist' = [hist EXCEPT ![p] = <<>>]

\* lines 152-154 and 175-177: the locals of a new call
Enter(p, f, a) ==
    /\ pc' = [pc EXCEPT ![p] = "scan"]
    /\ fn' = [fn EXCEPT ![p] = f]
    /\ args' = [args EXCEPT ![p] = a]
    /\ i' = [i EXCEPT ![p] = 0]
    /\ lines' = [lines EXCEPT ![p] = <<>>]
    /\ residue_number' = [residue_number EXCEPT ![p] = 1]
    /\ residue_atom_index' = [residue_atom_index EXCEPT ![p] = 0]
    /\ ret' = [ret EXCEPT ![p] = NoReturn]
    /\ hist' = [hist EXCEPT ![p] = <<>>]

\* line 252: create_pdb_lines_MD is called, with
\*  - a stream of at most MaxLen atoms, any boundary set and name table, or
\*  - such a stream with one atomic number outside the Element table, or
\*  - a residue of k carbon atoms followed by two free atoms, the first of
\*    which stands at a position of line 116; a molecule may begin at the
\*    second and may end with it, or
\*  - the three-atom example stream with a molecule beginning at atom 2
CallMD(p) ==
    /\ pc[p] = "idle"
    /\ \/ \E n \in 0..MaxLen : \E s \in Streams(n), b \in SUBSET (0..n), m \in NameMaps :
              Enter(p, "MD", MDArgs(s, Numbers(s), b, m))
       \/ \E n \in 1..MaxLen : \E s \in Streams(n), j \in 1..n, x \in NonElements, m \in NameMaps :
              Enter(p, "MD", MDArgs(s, [Numbers(s) EXCEPT ![j] = x], {}, m))
       \/ \E k \in PadLens, r \in {2, 3}, a \in Atoms, b \in Atoms :
              \E e \in SUBSET {k + 1, k + 2} :
                  Enter(p, "MD", MDArgs(Pad(k, r) \o <<a, b>>, Numbers(Pad(k, r) \o <<a, b>>),
                                        e, SampleNameMap))
       \/ \E m \in NameMaps : Enter(p, "MD", MDArgs(ExampleStream, <<8, 7, 6>>, {2}, m))

\* line 259: create_pdb_lines_QM is called with the atomic numbers of at most
\* MaxLen + 1 atoms (the coordinates have the same length), or with those of
\* a molecule of 100 carbon atoms and one more atom, whose index has three
\* digits
CallQM(p) ==
    /\ pc[p] = "idle"
    /\ \/ \E n \in 0..(MaxLen + 1) : \E a \in [1..n -> QMNumbers], m \in NameMaps :
              Enter(p, "QM", [atoms_number |-> a, nameMap |-> m])
       \/ \E x \in QMNumbers, m \in NameMaps :
              Enter(p, "QM", [atoms_number |-> [j \in 1..100 |-> 6] \o <<x>>, nameMap |-> m])

\* a KeyError leaves the call: the locals are lost and nothing is returned
Raise(p, idx) ==
    /\ pc' = [pc EXCEPT ![p] = "error"]
    /\ residue_atom_index' = [residue_atom_index EXCEPT ![p] = idx]
    /\ UNCHANGED <<fn, args, i, residue_number, lines, ret, hist>>

\* lines 155-164: one iteration of the loop of create_pdb_lines_MD.  hist
\* records, for the atom, the position it was named with, the residue number
\* on its line and what update_residue_indices returned
ScanAtomMD(p) ==
    /\ pc[p] = "scan" /\ fn[p] = "MD"
    /\ i[p] < Len(args[p].atoms_type)
    /\ LET a == args[p]
           j == i[p]
           idx == residue_atom_index[p] + 1
           type_string == typeMap[At(a.atoms_type, j)]
           residue_name == residue_Map[At(a.atoms_residue, j)]
           atom_name == get_atom_name(j, a.atoms_number, idx, residue_name, type_string, a.nameMap)
           element == FormatElement(j, a.atoms_number)
       IN  IF atom_name.raised \/ element.raised
           THEN Raise(p, idx)
           ELSE LET line == AtomLine(j + 1, atom_name.value, residue_name, residue_number[p],
                                     element.value)
                    upd == update_residue_indices(residue_number[p], j, type_string, a.atoms_type,
                                                  a.atoms_residue, residue_name, idx)
                    ter == insert_TERS(j, a.molecules_begin_atom_index, upd[1], upd[2],
                                       Append(lines[p], line))
                IN  /\ residue_number' = [residue_number EXCEPT ![p] = ter[1]]
                    /\ residue_atom_index' = [residue_atom_index EXCEPT ![p] = ter[2]]
                    /\ lines' = [lines EXCEPT ![p] = ter[3]]
                    /\ i' = [i EXCEPT ![p] = j + 1]
                    /\ hist' = [hist EXCEPT ![p] =
                                  Append(@, [pos |-> idx, rn |-> residue_number[p],
                                             upd_rn |-> upd[1], upd_idx |-> upd[2]])]
                    /\ UNCHANGED <<pc, fn, args, ret>>

\* lines 178-182: one iteration of the loop of create_pdb_lines_QM
ScanAtomQM(p) ==
    /\ pc[p] = "scan" /\ fn[p] = "QM"
    /\ i[p] < Len(args[p].atoms_number)
    /\ LET a == args[p]
           j == i[p]
           idx == residue_atom_index[p] + 1
           atom_name == QMAtomName(j, a.atoms_number)
       IN  IF atom_name.raised
           THEN Raise(p, idx)
           ELSE /\ lines' = [lines EXCEPT ![p] =
                      Append(@, AtomLine(j + 1, atom_name.value, "MOL", residue_number[p],
                                         atomic_numbers_Map[At(a.atoms_number, j)]))]
                /\ residue_atom_index' = [residue_atom_index EXCEPT ![p] = idx]
                /\ i' = [i EXCEPT ![p] = j + 1]
                /\ hist' = [hist EXCEPT ![p] =
                              Append(@, [pos |-> idx, rn |-> residue_number[p],
                                         upd_rn |-> residue_number[p], upd_idx |-> idx])]
                /\ UNCHANGED <<pc, fn, args, residue_number, ret>>

\* lines 165 and 183: the loop is over and the lines are returned
Return(p) ==
    /\ pc[p] = "scan"
    /\ i[p] = Len(args[p].atoms_number)
    /\ pc' = [pc EXCEPT ![p] = "done"]
    /\ ret' = [ret EXCEPT ![p] = Returned(lines[p])]
    /\ UNCHANGED <<fn, args, i, residue_number, residue_atom_index, lines, hist>>

\* lines 253, 260 and 215: the caller writes the returned lines out with
\* write_pdb and is ready for its next call; the locals of the call that
\* returned are gone
Collect(p) ==
    /\ pc[p] = "done"
    /\ pc' = [pc EXCEPT ![p] = "idle"]
    /\ fn' = [fn EXCEPT ![p] = "none"]
    /\ args' = [args EXCEPT ![p] = NoArgs]
    /\ i' = [i EXCEPT ![p] = 0]
    /\ residue_number' = [residue_number EXCEPT ![p] = 0]
    /\ residue_atom_index' = [residue_atom_index EXCEPT ![p] = 0]
    /\ lines' = [lines EXCEPT ![p] = <<>>]
    /\ ret' = [ret EXCEPT ![p] = NoReturn]
    /\ hist' = [hist EXCEPT ![p] = <<>>]

Next ==
    \/ \E p \in Slots : CallMD(p) /\ UNCHANGED poolvars
    \/ \E p \in Slots : CallQM(p) /\ UNCHANGED poolvars
    \/ \E p \in Slots : ScanAtomMD(p) /\ UNCHANGED poolvars
    \/ \E p \in Slots : ScanAtomQM(p) /\ UNCHANGED poolvars
    \/ \E p \in Slots : Return(p) /\ UNCHANGED poolvars
    \/ \E p \in Slots : Collect(p) /\ UNCHANGED poolvars

Spec == Init /\ [][Next]_vars

(***************************************************************************)
(* The worker pool of save_all_frames_for_all_structs_MD_parallel: every   *)
(* worker process runs save_single_struct_frames, which calls              *)
(* create_pdb_lines_MD once per frame.                                     *)
(***************************************************************************)
\* the atoms of the frames the workers convert
WorkerAtoms ==
    {[type |-> 1, residue |-> 1], [type |-> 2, residue |-> 1], [type |-> 3, residue |-> 4]}

\* line 213: a worker calls create_pdb_lines_MD for a frame of two atoms
WorkerCallMD(p) ==
    /\ pc[p] = "idle"
    /\ \E s \in [1..2 -> WorkerAtoms], b \in {{}, {1}} :
           Enter(p, "MD", MDArgs(s, Numbers(s), b, SampleNameMap))

InitPar == SlotInit(1..NumWorkers) /\ NoPool

NextPar ==
    \/ \E p \in Slots : WorkerCallMD(p) /\ UNCHANGED poolvars
    \/ \E p \in Slots : ScanAtomMD(p) /\ UNCHANGED poolvars
    \/ \E p \in Slots : Return(p) /\ UNCHANGED poolvars
    \/ \E p \in Slots : Collect(p) /\ UNCHANGED poolvars

SpecPar == InitPar /\ [][NextPar]_vars

(***************************************************************************)
(* save_all_frames_for_all_structs_MD_parallel, lines 217-228: the caller  *)
(* submits save_single_struct_frames for every structure of the file to a  *)
(* ProcessPoolExecutor, asks every future for its result in submission     *)
(* order, and leaves the with block, which shuts the pool down.  A worker  *)
(* process takes the structures in submission order, one at a time.        *)
(***************************************************************************)
\* a structure of the file: its per-atom arrays (the same for all of its
\* frames) and the number of its frames, two.  The second atom of a
\* structure may have an atomic number outside the Element table
StructStream == <<[type |-> 1, residue |-> 1], [type |-> 2, residue |-> 1]>>

StructKinds ==
    {[args |-> MDArgs(StructStream, nums, {}, SampleNameMap), frames |-> f] :
        nums \in {Numbers(StructStream)} \cup
                 {[Numbers(StructStream) EXCEPT ![2] = x] : x \in NonElements},
        f \in {2}}

\* lines 218-219: the structures of the file
InitPool ==
    /\ SlotInit(1..NumWorkers)
    /\ \E n \in 1..MaxStructs :
          /\ structs \in [1..n -> StructKinds]
          /\ future = [s \in 1..n |-> "none"]
          /\ written = [s \in 1..n |-> 0]
    /\ job = [p \in 1..NumWorkers |-> 0]
    /\ frame = [p \in 1..NumWorkers |-> 0]
    /\ caller = [at |-> "submit", n |-> 0, exc |-> FALSE]

\* lines 223-226: executor.submit for the next structure; after the last one
\* the caller goes on to the loop of line 227
Submit ==
    /\ caller.at = "submit"
    /\ IF caller.n < Len(structs)
       THEN /\ future' = [future EXCEPT ![caller.n + 1] = "pending"]
            /\ caller' = [caller EXCEPT !.n = caller.n + 1]
       ELSE /\ caller' = [at |-> "result", n |-> 1, exc |-> FALSE]
            /\ UNCHANGED future
    /\ UNCHANGED <<pc, fn, args, i, residue_number, residue_atom_index, lines, ret, hist,
                   structs, written, job, frame>>

\* lines 227-228: fut.result() of the next future returns once the future is
\* done, and raises the exception of a future that failed; after the last
\* future the with block is left
Result ==
    /\ caller.at = "result"
    /\ IF caller.n > Len(structs)
       THEN caller' = [caller EXCEPT !.at = "shutdown"]
       ELSE \/ /\ future[caller.n] = "done"
               /\ caller' = [caller EXCEPT !.n = caller.n + 1]
            \/ /\ future[caller.n] = "failed"
               /\ caller' = [caller EXCEPT !.at = "shutdown", !.exc = TRUE]
    /\ UNCHANGED <<pc, fn, args, i, residue_number, residue_atom_index, lines, ret, hist,
                   structs, future, written, job, frame>>

\* every submitted future has finished
AllSettled == \A s \in 1..Len(structs) : future[s] \in {"done", "failed"}

\* the with block left without waiting for the work that is pending
LeaveWith_NoWait ==
    /\ caller.at = "shutdown"
    /\ caller' = [caller EXCEPT !.at = IF caller.exc THEN "raised" ELSE "returned"]
    /\ UNCHANGED <<pc, fn, args, i, residue_number, residue_atom_index, lines, ret, hist,
                   structs, future, written, job, frame>>

\* line 221: leaving the with block calls executor.shutdown(wait=True), which
\* returns when all submitted work has run; then the function returns, or the
\* exception of line 228 goes on to its caller
LeaveWith ==
    /\ caller.at = "shutdown"
    /\ AllSettled
    /\ caller' = [caller EXCEPT !.at = IF caller.exc THEN "raised" ELSE "returned"]
    /\ UNCHANGED <<pc, fn, args, i, residue_number, residue_atom_index, lines, ret, hist,
                   structs, future, written, job, frame>>

\* a free worker takes the earliest submitted structure that no worker has
\* taken and enters save_single_struct_frames (lines 207-210)
TakeStruct(p) ==
    /\ pc[p] = "idle" /\ job[p] = 0
    /\ \E s \in 1..Len(structs) :
          /\ future[s] = "pending"
          /\ \A t \in 1..(s - 1) : future[t] # "pending"
          /\ future' = [future EXCEPT ![s] = "running"]
          /\ job' = [job EXCEPT ![p] = s]
    /\ frame' = [frame EXCEPT ![p] = 0]
    /\ UNCHANGED <<pc, fn, args, i, residue_number, residue_atom_index, lines, ret, hist,
                   structs, written, caller>>

\* lines 211-213: create_pdb_lines_MD is called for the next frame
FrameCallMD(p) ==
    /\ pc[p] = "idle" /\ job[p] # 0
    /\ frame[p] < structs[job[p]].frames
    /\ Enter(p, "MD", structs[job[p]].args)
    /\ UNCHANGED poolvars

\* lines 214-215: the lines of the frame are written and the loop goes on
WriteFrame(p) ==
    /\ job[p] # 0
    /\ Collect(p)
    /\ written' = [written EXCEPT ![job[p]] = @ + 1]
    /\ frame' = [frame EXCEPT ![p] = @ + 1]
    /\ UNCHANGED <<structs, future, job, caller>>

\* line 211: the loop over the frames is over, save_single_struct_frames
\* returns and the future is done
FinishStruct(p) ==
    /\ pc[p] = "idle" /\ job[p] # 0
    /\ frame[p] = structs[job[p]].frames
    /\ future' = [future EXCEPT ![job[p]] = "done"]
    /\ job' = [job EXCEPT ![p] = 0]
    /\ UNCHANGED <<pc, fn, args, i, residue_number, residue_atom_index, lines, ret, hist,
                   structs, written, frame, caller>>

\* the KeyError of create_pdb_lines_MD leaves save_single_struct_frames: the
\* future holds it, and the worker process is free for the next structure
FailStruct(p) ==
    /\ pc[p] = "error" /\ job[p] # 0
    /\ future' = [future EXCEPT ![job[p]] = "failed"]
    /\ job' = [job EXCEPT ![p] = 0]
    /\ pc' = [pc EXCEPT ![p] = "idle"]
    /\ fn' = [fn EXCEPT ![p] = "none"]
    /\ args' = [args EXCEPT ![p] = NoArgs]
    /\ i' = [i EXCEPT ![p] = 0]
    /\ residue_number' = [residue_number EXCEPT ![p] = 0]
    /\ residue_atom_index' = [residue_atom_index EXCEPT ![p] = 0]
    /\ lines' = [lines EXCEPT ![p] = <<>>]
    /\ ret' = [ret EXCEPT ![p] = NoReturn]
    /\ hist' = [hist EXCEPT ![p] = <<>>]
    /\ UNCHANGED <<structs, written, frame, caller>>

NextPool ==
    \/ Submit
    \/ Result
    \/ LeaveWith
    \/ \E p \in Slots : TakeStruct(p)
    \/ \E p \in Slots : FrameCallMD(p)
    \/ \E p \in Slots : ScanAtomMD(p) /\ UNCHANGED poolvars
    \/ \E p \in Slots : Return(p) /\ UNCHANGED poolvars
    \/ \E p \in Slots : WriteFrame(p)
    \/ \E p \in Slots : FinishStruct(p)
    \/ \E p \in Slots : FailStruct(p)

SpecPool == InitPool /\ [][NextPool]_vars

(***************************************************************************)
(* Vocabulary of the properties                                            *)
(***************************************************************************)
\* the slots that are in, or have just left, a call of create_pdb_lines_MD / _QM
MDCalls == {p \in Slots : fn[p] = "MD"}
QMCalls == {p \in Slots : fn[p] = "QM"}

\* the ATOM lines among ls, in order
AtomLinesOf(ls) == SelectSeq(ls, LAMBDA l : l.kind = "ATOM")

\* number of atoms, type label and residue name of the k-th atom (k = 1..N)
NAtoms(a) == Len(a.atoms_number)
TypeOf(a, k) == typeMap[a.atoms_type[k]]
ResOf(a, k) == residue_Map[a.atoms_residue[k]]
InElementTable(a, k) == a.atoms_number[k] \in DOMAIN atomic_numbers_Map
SymbolOf(a, k) == atomic_numbers_Map[a.atoms_number[k]]

\* the two triggers of the discontinuity rule between atom k and atom k+1
Trigger(a, k) ==
    \/ FirstChar(TypeOf(a, k)) = "O" /\ FirstChar(TypeOf(a, k + 1)) = "N"
    \/ ResOf(a, k + 1) = "MOL"

\* atom k, at position pos of its residue, is in an exception state
ExceptionState(a, k, pos) ==
    \/ ResOf(a, k) = "GLN" /\ pos \in {12, 14}
    \/ ResOf(a, k) = "ASN" /\ pos \in {9, 11}

\* the discontinuity rule fires between atom k and atom k+1
DiscontinuityFires(a, k, pos) ==
    k < NAtoms(a) /\ Trigger(a, k) /\ ~ExceptionState(a, k, pos)

\* the molecule-boundary rule fires after atom k (its 0-based index is k-1)
BoundaryFires(a, k) == k \in a.molecules_begin_atom_index

B2N(b) == IF b THEN 1 ELSE 0

(***************************************************************************)
(* C1: the residue number on the ATOM lines starts at 1, never decreases,  *)
(* and between the lines of two consecutive atoms grows by the number of   *)
(* rules (discontinuity, molecule boundary) that fire on that transition:  *)
(* 0, 1 or 2.                                                              *)
(***************************************************************************)
C1_ResidueNumberGrowth ==
    \A p \in MDCalls :
        LET al == AtomLinesOf(lines[p])
            h == hist[p]
            a == args[p]
        IN  /\ Len(al) = i[p] /\ Len(h) = i[p]
            /\ Len(al) >= 1 => al[1].resSeq = 1
            /\ \A k \in 1..(Len(al) - 1) :
                  /\ al[k + 1].resSeq >= al[k].resSeq
                  /\ al[k + 1].resSeq - al[k].resSeq =
                        B2N(DiscontinuityFires(a, k, h[k].pos)) + B2N(BoundaryFires(a, k))

\* both rules fired between atom 1 and atom 2, and the call returned
C1_Witness ==
    \E p \in MDCalls :
        /\ pc[p] = "done" /\ i[p] >= 2
        /\ DiscontinuityFires(args[p], 1, hist[p][1].pos) /\ BoundaryFires(args[p], 1)
        /\ AtomLinesOf(lines[p])[2].resSeq = 3

(***************************************************************************)
(* C2: for an atom that is not the last, update_residue_indices increments *)
(* the residue number and resets the position to 0 exactly when a trigger  *)
(* holds (O followed by N, or the next atom is a ligand atom) and the atom *)
(* is not in an exception state; otherwise it changes neither.             *)
(***************************************************************************)
C2_DiscontinuityRule ==
    \A p \in MDCalls :
        \A k \in 1..Len(hist[p]) :
            LET h == hist[p][k]
                a == args[p]
                fired == h.upd_rn = h.rn + 1 /\ h.upd_idx = 0
                kept == h.upd_rn = h.rn /\ h.upd_idx = h.pos
            IN  k < NAtoms(a) =>
                    /\ fired <=> (Trigger(a, k) /\ ~ExceptionState(a, k, h.pos))
                    /\ fired \/ kept

\* an O-to-N adjacency met in an exception state did not fire
C2_Witness ==
    \E p \in MDCalls :
        \E k \in 1..Len(hist[p]) :
            /\ k < NAtoms(args[p])
            /\ ExceptionState(args[p], k, hist[p][k].pos)
            /\ FirstChar(TypeOf(args[p], k)) = "O" /\ FirstChar(TypeOf(args[p], k + 1)) = "N"
            /\ hist[p][k].upd_rn = hist[p][k].rn

(***************************************************************************)
(* C3: the position used to name atom 0 is 1; the position used to name    *)
(* atom i+1 is 1 if the residue number changed between the two lines and   *)
(* one more than that of atom i otherwise; it is always >= 1.              *)
(***************************************************************************)
C3_PositionWithinResidue ==
    \A p \in MDCalls :
        LET al == AtomLinesOf(lines[p])
            h == hist[p]
        IN  /\ Len(h) >= 1 => h[1].pos = 1
            /\ \A k \in 1..Len(h) : h[k].pos >= 1
            /\ \A k \in 1..(Len(h) - 1) :
                  h[k + 1].pos = IF al[k + 1].resSeq # al[k].resSeq THEN 1 ELSE h[k].pos + 1

\* one transition reset the position and another let it count on
C3_Witness ==
    \E p \in MDCalls :
        \E k, m \in 1..(Len(hist[p]) - 1) :
            /\ hist[p][k + 1].pos = 1
            /\ hist[p][m + 1].pos = hist[p][m].pos + 1

(***************************************************************************)
(* C4: the returned sequence holds the N ATOM lines in atom order, the     *)
(* k-th with serial k, and a TER line right after the line of atom i       *)
(* exactly when i+1 is a molecule beginning; nothing precedes the first    *)
(* ATOM line, and the length is N plus the number of beginnings in 1..N.   *)
(***************************************************************************)
\* the place of the k-th ATOM line: after the k-1 earlier ATOM lines and the
\* TER lines of the beginnings 1..k-1
PlaceOfAtom(a, k) == k + Cardinality(a.molecules_begin_atom_index \cap 1..(k - 1))

C4_LineLayout ==
    \A p \in MDCalls :
        pc[p] = "done" =>
            LET a == args[p]
                ls == ret[p].lines
                N == NAtoms(a)
            IN  /\ ret[p].returned
                /\ Len(ls) = N + Cardinality(a.molecules_begin_atom_index \cap 1..N)
                /\ Len(AtomLinesOf(ls)) = N
                /\ \A k \in 1..N :
                      /\ ls[PlaceOfAtom(a, k)].kind = "ATOM"
                      /\ ls[PlaceOfAtom(a, k)].serial = k
                      /\ (k \in a.molecules_begin_atom_index) <=>
                            /\ PlaceOfAtom(a, k) + 1 <= Len(ls)
                            /\ ls[PlaceOfAtom(a, k) + 1] = TER
                /\ N >= 1 => ls[1].kind = "ATOM"

\* two atoms returned with beginnings at 0, 1 and 2: ATOM TER ATOM TER
C4_Witness ==
    \E p \in MDCalls :
        /\ pc[p] = "done" /\ NAtoms(args[p]) = 2
        /\ args[p].molecules_begin_atom_index = {0, 1, 2}
        /\ Len(ret[p].lines) = 4

(***************************************************************************)
(* C5: the example stream OH/GLY, NH/GLY, CA/MOL with atomic numbers 8, 7, *)
(* 6 and a molecule beginning at atom 2.                                   *)
(***************************************************************************)
IsExample(p) ==
    /\ fn[p] = "MD" /\ pc[p] = "done"
    /\ args[p] = MDArgs(ExampleStream, <<8, 7, 6>>, {2}, args[p].nameMap)

\* the shape both statements agree on: ATOM GLY 1, ATOM GLY 2, TER, ATOM MOL
ExampleShape(ls) ==
    /\ Len(ls) = 4
    /\ ls[1].kind = "ATOM" /\ ls[1].resName = "GLY" /\ ls[1].resSeq = 1
    /\ ls[2].kind = "ATOM" /\ ls[2].resName = "GLY" /\ ls[2].resSeq = 2
    /\ ls[3] = TER
    /\ ls[4].kind = "ATOM" /\ ls[4].resName = "MOL"

\* C5 as stated: atom 2 is emitted with residue number 3 and atom name C0
C5_ExampleAsStated ==
    \A p \in Slots :
        IsExample(p) =>
            /\ ExampleShape(ret[p].lines)
            /\ ret[p].lines[4].resSeq = 3 /\ ret[p].lines[4].name = "C0"

\* C5 amended: atom 2 is emitted with residue number 4 (the ligand that
\* follows atom 1 fires the discontinuity rule and the molecule beginning
\* fires the boundary rule) and atom name C1 (positions count from 1)
C5_ExampleAmended ==
    \A p \in Slots :
        IsExample(p) =>
            /\ ExampleShape(ret[p].lines)
            /\ ret[p].lines[4].resSeq = 4 /\ ret[p].lines[4].name = "C1"

\* the call on the example stream returned
C5_Witness == \E p \in Slots : IsExample(p) /\ ret[p].returned

(***************************************************************************)
(* C6: a ligand atom is named by its element symbol followed by its        *)
(* position, whatever the Name table holds.                                *)
(***************************************************************************)
C6_LigandName ==
    \A p \in MDCalls :
        LET al == AtomLinesOf(lines[p])
            a == args[p]
        IN  \A k \in 1..Len(al) :
                ResOf(a, k) = "MOL" =>
                    al[k].name = SymbolOf(a, k) \o str(hist[p][k].pos)

\* a ligand atom was named while the Name table held an entry under its key
C6_Witness ==
    \E p \in MDCalls :
        \E k \in 1..Len(AtomLinesOf(lines[p])) :
            /\ ResOf(args[p], k) = "MOL"
            /\ <<"MOL", hist[p][k].pos - 1, TypeOf(args[p], k)>> \in DOMAIN args[p].nameMap
            /\ AtomLinesOf(lines[p])[k].name = "C1"

(***************************************************************************)
(* C7: a non-ligand atom is named by the Name table entry under            *)
(* (residue name, position - 1, type label) if there is one, and by its    *)
(* element symbol followed by its position if there is none; a miss raises *)
(* nothing: the scan stops in an error only at an atomic number that the   *)
(* Element table does not hold.                                            *)
(***************************************************************************)
NameKey(a, k, pos) == <<ResOf(a, k), pos - 1, TypeOf(a, k)>>

C7_NameLookupAndFallback ==
    \A p \in MDCalls :
        LET al == AtomLinesOf(lines[p])
            a == args[p]
        IN  /\ \A k \in 1..Len(al) :
                  ResOf(a, k) # "MOL" =>
                      al[k].name =
                          IF NameKey(a, k, hist[p][k].pos) \in DOMAIN a.nameMap
                          THEN a.nameMap[NameKey(a, k, hist[p][k].pos)]
                          ELSE SymbolOf(a, k) \o str(hist[p][k].pos)
            /\ pc[p] = "error" => ~InElementTable(a, i[p] + 1)

\* a non-ligand atom missed a non-empty Name table at position 2, was named
\* C2, and the scan went on to the next atom
C7_Witness ==
    \E p \in MDCalls :
        \E k \in 1..(Len(AtomLinesOf(lines[p])) - 1) :
            /\ ResOf(args[p], k) # "MOL"
            /\ args[p].nameMap = SampleNameMap
            /\ hist[p][k].pos = 2
            /\ NameKey(args[p], k, hist[p][k].pos) \notin DOMAIN args[p].nameMap
            /\ AtomLinesOf(lines[p])[k].name = "C2"

(***************************************************************************)
(* C8: a stream with an atomic number outside the Element table ends in an *)
(* error at the first such atom and returns nothing, in                    *)
(* create_pdb_lines_MD and in create_pdb_lines_QM.                         *)
(***************************************************************************)
BadAtoms(a) == {k \in 1..NAtoms(a) : ~InElementTable(a, k)}
FirstBad(a) == CHOOSE k \in BadAtoms(a) : \A m \in BadAtoms(a) : k <= m

C8_UnknownElementIsFatal ==
    \A p \in MDCalls \cup QMCalls :
        /\ BadAtoms(args[p]) # {} =>
              /\ pc[p] \in {"scan", "error"}
              /\ ~ret[p].returned
              /\ i[p] <= FirstBad(args[p]) - 1
              /\ Len(AtomLinesOf(lines[p])) <= FirstBad(args[p]) - 1
        /\ pc[p] = "error" =>
              /\ BadAtoms(args[p]) # {}
              /\ i[p] = FirstBad(args[p]) - 1
              /\ ret[p] = NoReturn

\* create_pdb_lines_MD ended in an error at a non-ligand atom whose Name table
\* lookup succeeds
C8_Witness ==
    \E p \in MDCalls :
        /\ pc[p] = "error"
        /\ ResOf(args[p], i[p] + 1) # "MOL"
        /\ NameKey(args[p], i[p] + 1, residue_atom_index[p]) \in DOMAIN args[p].nameMap

(***************************************************************************)
(* C9: create_pdb_lines_QM returns one ATOM line per atom, in order, with  *)
(* residue MOL, residue number 1, serial i+1 and the element symbol        *)
(* followed by the 0-based index i as name, whatever the Name table holds. *)
(***************************************************************************)
C9_QMLines ==
    \A p \in QMCalls :
        LET a == args[p] IN
        /\ \A k \in 1..Len(lines[p]) :
              lines[p][k] = AtomLine(k, SymbolOf(a, k) \o str(k - 1), "MOL", 1, SymbolOf(a, k))
        /\ pc[p] = "done" =>
              /\ ret[p] = Returned(lines[p])
              /\ Len(lines[p]) = NAtoms(a)
              /\ (a.atoms_number = <<6>> => lines[p][1].name = "C0")

\* a snapshot of three atoms returned, under a non-empty Name table
C9_Witness ==
    \E p \in QMCalls :
        /\ pc[p] = "done" /\ NAtoms(args[p]) = 3
        /\ args[p].nameMap = SampleNameMap
        /\ ret[p].lines[3].name = "Ca2"

(***************************************************************************)
(* C10: every call of create_pdb_lines_MD starts from residue number 1 and *)
(* position 0 and returns what it returns when run alone on its inputs,    *)
(* however the steps of the calls of several workers are interleaved and   *)
(* however many calls a worker has made before.                            *)
(***************************************************************************)
\* create_pdb_lines_MD run alone from atom j on
RECURSIVE RunAlone(_, _, _, _, _)
RunAlone(a, j, rn, idx0, ls) ==
    IF j = NAtoms(a)
    THEN Returned(ls)
    ELSE LET idx == idx0 + 1
             type_string == typeMap[At(a.atoms_type, j)]
             residue_name == residue_Map[At(a.atoms_residue, j)]
             atom_name == get_atom_name(j, a.atoms_number, idx, residue_name, type_string, a.nameMap)
             element == FormatElement(j, a.atoms_number)
         IN  IF atom_name.raised \/ element.raised
             THEN NoReturn
             ELSE LET upd == update_residue_indices(rn, j, type_string, a.atoms_type,
                                                    a.atoms_residue, residue_name, idx)
                      ter == insert_TERS(j, a.molecules_begin_atom_index, upd[1], upd[2],
                                         Append(ls, AtomLine(j + 1, atom_name.value, residue_name,
                                                             rn, element.value)))
                  IN  RunAlone(a, j + 1, ter[1], ter[2], ter[3])

C10_CallsAreIndependent ==
    \A p \in MDCalls :
        /\ (pc[p] = "scan" /\ i[p] = 0) =>
              residue_number[p] = 1 /\ residue_atom_index[p] = 0 /\ lines[p] = <<>>
        /\ pc[p] = "done" => ret[p] = RunAlone(args[p], 0, 1, 0, <<>>)

\* two workers have returned the lines of two different frames
C10_Witness ==
    /\ Cardinality(Slots) >= 2
    /\ \E p, q \in MDCalls :
          /\ p # q /\ pc[p] = "done" /\ pc[q] = "done"
          /\ args[p] # args[q]
          /\ ret[p].lines # ret[q].lines

(***************************************************************************)
(* C11: every ATOM line of create_pdb_lines_MD and create_pdb_lines_QM has *)
(* the same length and the same columns whatever the length of the atom    *)
(* name: the name never takes more than the 4 characters of its field.     *)
(***************************************************************************)
C11_FixedWidthLines ==
    \A p \in MDCalls \cup QMCalls :
        LET al == AtomLinesOf(lines[p])
        IN  \A k \in 1..Len(al) :
                /\ Field(al[k].name, NameWidth) = NameWidth
                /\ ResNameColumn(al[k]) = ResNameColumn(al[1])
                /\ LineLength(al[k]) = LineLength(al[1])

(***************************************************************************)
(* C12: when save_all_frames_for_all_structs_MD_parallel is over, the      *)
(* Element-table error of a structure has reached the caller and has       *)
(* stopped that structure alone: every other structure of the file has all *)
(* of its frames written, whatever the order the workers ran in and        *)
(* wherever the failing structure stands in the file.                      *)
(***************************************************************************)
Fails(s) == BadAtoms(structs[s].args) # {}

C12_FailureStopsOneStructure ==
    /\ \A s \in 1..Len(structs) :
          /\ written[s] <= structs[s].frames
          /\ ~Fails(s) => future[s] # "failed"
          /\ Fails(s) => written[s] = 0 /\ future[s] # "done"
    /\ caller.at \in {"returned", "raised"} =>
          /\ \A s \in 1..Len(structs) :
                IF Fails(s)
                THEN future[s] = "failed"
                ELSE future[s] = "done" /\ written[s] = structs[s].frames
          /\ (caller.at = "raised") <=> (\E s \in 1..Len(structs) : Fails(s))

\* the first of three structures failed, the caller has its error, and the
\* two structures behind it have both of their frames written
C12_Witness ==
    /\ caller.at = "raised"
    /\ Len(structs) = 3
    /\ Fails(1) /\ ~Fails(2) /\ ~Fails(3)
    /\ written[2] = 2 /\ written[3] = 2

(***************************************************************************)
(* C13: for the last atom the discontinuity rule leaves the tracker alone, *)
(* whatever the arrays hold, while the boundary rule still applies: the    *)
(* returned sequence of N >= 1 atoms ends with a TER line exactly when N   *)
(* is a molecule beginning, and with the ATOM line of atom N-1 otherwise.  *)
(***************************************************************************)
C13_LastAtom ==
    \A p \in MDCalls :
        LET a == args[p]
            N == NAtoms(a)
            h == hist[p]
            ls == ret[p].lines
        IN  /\ (N >= 1 /\ Len(h) = N) =>
                  h[N].upd_rn = h[N].rn /\ h[N].upd_idx = h[N].pos
            /\ (N >= 1 /\ pc[p] = "done") =>
                  IF N \in a.molecules_begin_atom_index
                  THEN /\ ls[Len(ls)] = TER
                       /\ ls[Len(ls) - 1].kind = "ATOM" /\ ls[Len(ls) - 1].serial = N
                  ELSE ls[Len(ls)].kind = "ATOM" /\ ls[Len(ls)].serial = N

\* a stream whose last atom is an oxygen and whose first is a nitrogen was
\* returned with a TER line at its end
C13_Witness ==
    \E p \in MDCalls :
        /\ pc[p] = "done" /\ NAtoms(args[p]) = 2
        /\ FirstChar(TypeOf(args[p], 2)) = "O" /\ FirstChar(TypeOf(args[p], 1)) = "N"
        /\ 2 \in args[p].molecules_begin_atom_index
        /\ ret[p].lines[Len(ret[p].lines)] = TER

(***************************************************************************)
(* C14: a ligand atom that follows a ligand atom has a greater residue     *)
(* number than it, position 1 and the name <element>1; a ligand atom has   *)
(* position 1 unless the atom before it is in an exception state (GLN at   *)
(* 12 or 14, ASN at 9 or 11) and no molecule begins at the ligand atom.    *)
(***************************************************************************)
C14_LigandAtomsStandAlone ==
    \A p \in MDCalls :
        LET a == args[p]
            al == AtomLinesOf(lines[p])
            h == hist[p]
        IN  \A k \in 1..Len(al) :
                ResOf(a, k) = "MOL" =>
                    /\ (k >= 2 /\ ResOf(a, k - 1) = "MOL") =>
                          /\ al[k].resSeq > al[k - 1].resSeq
                          /\ h[k].pos = 1
                          /\ al[k].name = SymbolOf(a, k) \o "1"
                    /\ h[k].pos # 1 <=>
                          /\ k >= 2
                          /\ ExceptionState(a, k - 1, h[k - 1].pos)
                          /\ (k - 1) \notin a.molecules_begin_atom_index

\* two ligand atoms in a row, the second with the next residue number and the
\* name N1
C14_Witness ==
    \E p \in MDCalls :
        /\ Len(AtomLinesOf(lines[p])) >= 2
        /\ ResOf(args[p], 1) = "MOL" /\ ResOf(args[p], 2) = "MOL"
        /\ AtomLinesOf(lines[p])[2].resSeq = 2
        /\ AtomLinesOf(lines[p])[2].name = "N1"

====
